---- MODULE Spec2Model ----
(***************************************************************************)
(* The freehand pen marker of markerjs2.  The repository carries two       *)
(* versions of the class PenTool:                                          *)
(*   - src/markers/pan/PenTool.ts : polyline path, one visible path        *)
(*     (definitions prefixed Poly_);                                       *)
(*   - unnamed/part_000           : smoothed path, a second path and one   *)
(*     circle handle per point (definitions prefixed Smooth_).             *)
(* The variable "variant" says which class the marker is an instance of.   *)
(*                                                                         *)
(* JavaScript objects have identity: point objects live in the heap "obj", *)
(* arrays of point references in the heap "arr", SVG elements in "dom".    *)
(* A number is a non-negative integer; a number that is a midpoint is      *)
(* carried as twice its value until it is formatted.  A behaviour is a     *)
(* sequence of at most MaxCalls calls by the host.                         *)
(***************************************************************************)
EXTENDS Integers, Sequences, FiniteSets, TLC

\* ---------------------------------------------------------------- bounds
MaxCalls == 4       \* number of calls the host makes in one behaviour
MaxStateLen == 1    \* longest stroke of a state record built by the host

\* ------------------------------------------------- inputs the host draws
InputPoints == {[x |-> 1, y |-> 2], [x |-> 3, y |-> 1]}
Colors == {"red"}
Widths == {8}
Dasharrays == {"4"}
ScaleFactors == {<<2, 3>>}
EditTargets == {[x |-> 6, y |-> 6]}

DefaultColor == "black"
DefaultStrokeWidth == 2
Undefined == 0
NoState == [typeName |-> "none"]
NoOp == [name |-> "new"]

\* ------------------------------------------------------- number -> string
Digit == <<"0", "1", "2", "3", "4", "5", "6", "7", "8", "9">>

RECURSIVE NumToString(_)
NumToString(n) ==
  IF n < 10 THEN Digit[n + 1]
  ELSE NumToString(n \div 10) \o Digit[(n % 10) + 1]

\* the string of the number h/2
HalfToString(h) ==
  IF h % 2 = 0 THEN NumToString(h \div 2)
  ELSE NumToString(h \div 2) \o ".5"

VARIABLES
  variant,          \* "polyline" (PenTool.ts) or "smoothed" (part_000)
  strokeColor, strokeWidth, strokeDasharray,
  points,           \* this.points: reference to an array in arr
  isDrawing,
  visual, visibleCurve, drawingPath,   \* element references, Undefined at first
  arr,              \* heap of arrays: reference -> sequence of point references
  obj,              \* heap of point objects: reference -> [x, y]
  dom,              \* every element created so far, by reference 1..Len(dom)
  container,        \* children of the marker's SVG container, in order
  notes,            \* the inherited base-marker fields
  saved,            \* the state record the host holds (from getState or passed to restoreState)
  savedByGetState,  \* the host's record was returned by getState
  lastOp,           \* the call the host made last, with its arguments
  trace,            \* the calls the last operation made, in order
  threw,            \* the last operation ended in an exception
  nCalls,           \* number of calls the host has made
  delivered,        \* point values delivered by pointer events since construction
  phase             \* "new", "drawing", "done": only down, move*, up so far; else "off"

vars == <<variant, strokeColor, strokeWidth, strokeDasharray, points, isDrawing,
          visual, visibleCurve, drawingPath, arr, obj, dom, container, notes,
          saved, savedByGetState, lastOp, trace, threw, nCalls, delivered, phase>>

\* --------------------------------------------------------------- heaps
\* smallest reference not in use
FreshRef(used) == CHOOSE n \in 1..(Cardinality(used) + 1) :
                    n \notin used /\ \A m \in 1..(n - 1) : m \in used

RECURSIVE FreshRefs(_, _)
FreshRefs(used, k) ==
  IF k = 0 THEN <<>>
  ELSE LET r == FreshRef(used) IN <<r>> \o FreshRefs(used \cup {r}, k - 1)

\* the values of the points of array a
Vals(A, O, a) == [i \in 1..Len(A[a]) |-> O[A[a][i]]]

PointVals == Vals(arr, obj, points)

\* the arrays the marker and the host's record reach, the marker's first
LiveArrs(p, s) ==
  IF s = NoState \/ s.points = p THEN <<p>> ELSE <<p, s.points>>

\* the references in sequence refs, each once, in order of first occurrence
RECURSIVE Distinct(_, _)
Distinct(refs, seen) ==
  IF refs = <<>> THEN <<>>
  ELSE IF Head(refs) \in seen THEN Distinct(Tail(refs), seen)
       ELSE <<Head(refs)>> \o Distinct(Tail(refs), seen \cup {Head(refs)})

RECURSIVE Concat(_, _)
Concat(A, as) == IF as = <<>> THEN <<>> ELSE A[Head(as)] \o Concat(A, Tail(as))

IndexOf(seq, r) == CHOOSE i \in 1..Len(seq) : seq[i] = r

\* The JavaScript runtime frees what neither the marker nor the host's record
\* reaches.  A reference is only ever compared for identity, so the surviving
\* arrays and objects are renumbered in the order in which they are reached.
Collect(A, O, p, s) ==
  LET as == LiveArrs(p, s)
      os == Distinct(Concat(A, as), {})
  IN /\ arr' = [a \in 1..Len(as) |->
                  [i \in 1..Len(A[as[a]]) |-> IndexOf(os, A[as[a]][i])]]
     /\ obj' = [o \in 1..Len(os) |-> O[os[o]]]
     /\ points' = 1
     /\ saved' = IF s = NoState THEN s
                 ELSE [s EXCEPT !.points = IndexOf(as, s.points)]

\* a.push(r), and the variant a bug would make of it: drop a repeated position
PushUnlessRepeated(A, O, a, r) ==
  IF A[a] # <<>> /\ O[A[a][Len(A[a])]] = O[r] THEN A
  ELSE [A EXCEPT ![a] = Append(@, r)]

Push(A, O, a, r) == [A EXCEPT ![a] = Append(@, r)]

\* the point object of a pointer event: a new one or, while a stroke is being
\* drawn, the object of the previous event once more
PointerInputs ==
  {[ref |-> o, heap |-> obj] :
     o \in IF isDrawing /\ arr[points] # <<>>
            THEN {arr[points][Len(arr[points])]} ELSE {}}
  \cup {[ref |-> FreshRef(DOMAIN obj),
         heap |-> (FreshRef(DOMAIN obj) :> v) @@ obj] : v \in InputPoints}

\* --------------------------------------------------------------- SVG
CurV == [dom |-> dom, container |-> container, visual |-> visual,
         visibleCurve |-> visibleCurve, drawingPath |-> drawingPath]

SetV(V) ==
  /\ dom' = V.dom
  /\ container' = V.container
  /\ visual' = V.visual
  /\ visibleCurve' = V.visibleCurve
  /\ drawingPath' = V.drawingPath

NoListener == 0 - 1

\* SvgHelper.createGroup
Group(kids) == [tag |-> "g", attrs |-> <<>>, children |-> kids, idx |-> NoListener]

\* SvgHelper.createPath(d, attributes)
Path(d, color, width) ==
  [tag |-> "path",
   attrs |-> ("d" :> d) @@ ("stroke" :> color) @@ ("stroke-width" :> width)
             @@ ("fill" :> "transparent"),
   children |-> <<>>, idx |-> NoListener]

\* element.setAttribute(name, value)
SetAttr(D, e, name, value) ==
  [D EXCEPT ![e].attrs = (name :> value) @@ @]

\* element.getAttribute(name), "" for an attribute never set
GetAttr(e, name) ==
  IF name \in DOMAIN dom[e].attrs THEN dom[e].attrs[name] ELSE ""

\* ------------------------------------------------ PenTool.ts (polyline)
\* the map/join of getPathD from (1-based) index i on, and the variant a bug
\* would make of it: the last point is left out
RECURSIVE Poly_joinButLast(_, _)
Poly_joinButLast(ps, i) ==
  IF i >= Len(ps) THEN ""
  ELSE (IF i = 1 THEN "M " ELSE " L ")
       \o NumToString(ps[i].x) \o " " \o NumToString(ps[i].y)
       \o Poly_joinButLast(ps, i + 1)

RECURSIVE Poly_join(_, _)
Poly_join(ps, i) ==
  IF i > Len(ps) THEN ""
  ELSE (IF i = 1 THEN "M " ELSE " L ")
       \o NumToString(ps[i].x) \o " " \o NumToString(ps[i].y)
       \o Poly_join(ps, i + 1)

\* getPathD, and the variant a bug would make of it: a single point is drawn
Poly_getPathDFromOne(ps) == IF Len(ps) < 1 THEN "" ELSE Poly_join(ps, 1)

Poly_getPathD(ps) == IF Len(ps) < 2 THEN "" ELSE Poly_join(ps, 1)

Poly_createVisual(V, ps, color, width) ==
  LET g == Len(V.dom) + 1
      c == g + 1
  IN [dom |-> V.dom \o <<Group(<<c>>),
                         Path(Poly_getPathD(ps), color, NumToString(width))>>,
      container |-> Append(V.container, g),
      visual |-> g,
      visibleCurve |-> c,
      drawingPath |-> V.drawingPath]

Poly_adjustVisual(V, ps, color, width) ==
  IF V.visibleCurve # Undefined
  THEN [V EXCEPT !.dom =
          SetAttr(SetAttr(SetAttr(V.dom, V.visibleCurve, "d", Poly_getPathD(ps)),
                          V.visibleCurve, "stroke", color),
                  V.visibleCurve, "stroke-width", NumToString(width))]
  ELSE V

\* ------------------------------------------ inherited base marker
\* LinearMarkerBase.getState: the base fields and the base's own type name
Super_getState == [typeName |-> "LinearMarkerBase", notes |-> notes]

\* LinearMarkerBase.restoreState: copies the base fields out of the record
Super_restoreState(state) == notes' = state.notes

\* LinearMarkerBase.ownsTarget: true for the base's own grips, none of which
\* is an element the pen marker creates
Super_ownsTarget(el) == FALSE

\* --------------------------------------------------- bookkeeping
Observe(op, made, exception) ==
  /\ nCalls < MaxCalls
  /\ nCalls' = nCalls + 1
  /\ lastOp' = op
  /\ trace' = made
  /\ threw' = exception

Off == phase' = "off" /\ delivered' = <<>>

DownSeen(v) ==
  IF phase = "new" THEN phase' = "drawing" /\ delivered' = <<v>> ELSE Off

MoveSeen(v) ==
  IF phase = "drawing" THEN phase' = "drawing" /\ delivered' = Append(delivered, v)
  ELSE Off

UpSeen(v) ==
  IF phase = "drawing" THEN phase' = "done" /\ delivered' = Append(delivered, v)
  ELSE Off

\* state records the host builds itself (a document saved earlier)
HostStyle == [strokeColor |-> "red", strokeWidth |-> 8, strokeDasharray |-> "4",
              notes |-> "n"]

\* the strokes of those records: the prefixes of one zigzag stroke
HostStrokes ==
  {[i \in 1..n |-> IF i % 2 = 1 THEN [x |-> 1, y |-> 2] ELSE [x |-> 3, y |-> 1]] :
     n \in 0..MaxStateLen}

\* ---------------------------------------- PenTool.ts: operations
Poly_selectorCurve == Undefined

Poly_ownsTarget(el) ==
  \/ Super_ownsTarget(el)
  \/ el = visual
  \/ el = Poly_selectorCurve
  \/ el = visibleCurve

Poly_pointerDown(in) ==
  /\ variant = "polyline"
  /\ IF ~isDrawing
     THEN LET a == FreshRef(DOMAIN arr)
              A == (a :> <<in.ref>>) @@ arr
          IN /\ Collect(A, in.heap, a, saved)
             /\ SetV(Poly_createVisual(CurV, Vals(A, in.heap, a),
                                       strokeColor, strokeWidth))
             /\ isDrawing' = TRUE
             /\ Observe([name |-> "pointerDown", point |-> in.heap[in.ref]],
                        <<"super.pointerDown", "createVisual">>, FALSE)
     ELSE /\ Collect(arr, in.heap, points, saved)
          /\ UNCHANGED <<dom, container, visual, visibleCurve, drawingPath, isDrawing>>
          /\ Observe([name |-> "pointerDown", point |-> in.heap[in.ref]],
                     <<"super.pointerDown">>, FALSE)
  /\ DownSeen(in.heap[in.ref])
  /\ UNCHANGED <<variant, strokeColor, strokeWidth, strokeDasharray, notes,
                 savedByGetState>>

\* pointerMove, and the variant a bug would make of it: no check of isDrawing
Poly_pointerMoveUnguarded(in) ==
  /\ variant = "polyline"
  /\ LET A == Push(arr, in.heap, points, in.ref)
     IN /\ Collect(A, in.heap, points, saved)
        /\ SetV(Poly_adjustVisual(CurV, Vals(A, in.heap, points),
                                  strokeColor, strokeWidth))
        /\ Observe([name |-> "pointerMove"], <<"adjustVisual">>, FALSE)
  /\ MoveSeen(in.heap[in.ref])
  /\ UNCHANGED <<variant, strokeColor, strokeWidth, strokeDasharray, isDrawing,
                 notes, savedByGetState>>

Poly_pointerMove(in) ==
  /\ variant = "polyline"
  /\ IF isDrawing
     THEN LET A == Push(arr, in.heap, points, in.ref)
          IN /\ Collect(A, in.heap, points, saved)
             /\ SetV(Poly_adjustVisual(CurV, Vals(A, in.heap, points),
                                       strokeColor, strokeWidth))
             /\ Observe([name |-> "pointerMove"],
                        <<"adjustVisual">>, FALSE)
     ELSE /\ Collect(arr, in.heap, points, saved)
          /\ UNCHANGED <<dom, container, visual, visibleCurve, drawingPath>>
          /\ Observe([name |-> "pointerMove"],
                     <<>>, FALSE)
  /\ MoveSeen(in.heap[in.ref])
  /\ UNCHANGED <<variant, strokeColor, strokeWidth, strokeDasharray, isDrawing,
                 notes, savedByGetState>>

Poly_pointerUp(in) ==
  /\ variant = "polyline"
  /\ IF isDrawing
     THEN LET A == Push(arr, in.heap, points, in.ref)
          IN /\ Collect(A, in.heap, points, saved)
             /\ SetV(Poly_adjustVisual(CurV, Vals(A, in.heap, points),
                                       strokeColor, strokeWidth))
             /\ isDrawing' = FALSE
             /\ Observe([name |-> "pointerUp"],
                        <<"adjustVisual">>, FALSE)
     ELSE /\ Collect(arr, in.heap, points, saved)
          /\ UNCHANGED <<dom, container, visual, visibleCurve, drawingPath, isDrawing>>
          /\ Observe([name |-> "pointerUp"],
                     <<>>, FALSE)
  /\ UpSeen(in.heap[in.ref])
  /\ UNCHANGED <<variant, strokeColor, strokeWidth, strokeDasharray, notes,
                 savedByGetState>>

Poly_setStrokeColor(color) ==
  /\ variant = "polyline"
  /\ strokeColor' = color
  /\ SetV(Poly_adjustVisual(CurV, PointVals, color, strokeWidth))
  /\ Observe([name |-> "setStrokeColor", color |-> color], <<"adjustVisual">>, FALSE)
  /\ Off
  /\ UNCHANGED <<variant, strokeWidth, strokeDasharray, points, isDrawing, arr, obj,
                 notes, saved, savedByGetState>>

Poly_setStrokeWidth(width) ==
  /\ variant = "polyline"
  /\ strokeWidth' = width
  /\ SetV(Poly_adjustVisual(CurV, PointVals, strokeColor, width))
  /\ Observe([name |-> "setStrokeWidth", width |-> width], <<"adjustVisual">>, FALSE)
  /\ Off
  /\ UNCHANGED <<variant, strokeColor, strokeDasharray, points, isDrawing, arr, obj,
                 notes, saved, savedByGetState>>

Poly_setStrokeDasharray(dasharray) ==
  /\ variant = "polyline"
  /\ strokeDasharray' = dasharray
  /\ SetV(Poly_adjustVisual(CurV, PointVals, strokeColor, strokeWidth))
  /\ Observe([name |-> "setStrokeDasharray", dasharray |-> dasharray],
             <<"adjustVisual">>, FALSE)
  /\ Off
  /\ UNCHANGED <<variant, strokeColor, strokeWidth, points, isDrawing, arr, obj,
                 notes, saved, savedByGetState>>

\* this.points.map(p => ({x: p.x * scaleX, y: p.y * scaleY})): a new array of new objects
Poly_scale(scaleX, scaleY) ==
  /\ variant = "polyline"
  /\ LET old == arr[points]
         rs == FreshRefs(DOMAIN obj, Len(old))
         a == FreshRef(DOMAIN arr)
         O == [r \in DOMAIN obj \cup {rs[i] : i \in 1..Len(rs)} |->
                 IF \E i \in 1..Len(rs) : rs[i] = r
                 THEN LET i == CHOOSE j \in 1..Len(rs) : rs[j] = r
                      IN [x |-> obj[old[i]].x * scaleX, y |-> obj[old[i]].y * scaleY]
                 ELSE obj[r]]
         A == (a :> rs) @@ arr
     IN /\ Collect(A, O, a, saved)
        /\ SetV(Poly_adjustVisual(CurV, Vals(A, O, a), strokeColor, strokeWidth))
  /\ Observe([name |-> "scale", scaleX |-> scaleX, scaleY |-> scaleY],
             <<"super.scale", "adjustVisual">>, FALSE)
  /\ Off
  /\ UNCHANGED <<variant, strokeColor, strokeWidth, strokeDasharray, isDrawing, notes,
                 savedByGetState>>

\* the record getState builds: Object.assign(own fields, super.getState()), then typeName
Poly_result ==
  LET own == [strokeColor |-> strokeColor, strokeWidth |-> strokeWidth,
              strokeDasharray |-> strokeDasharray, points |-> points]
      result == Super_getState @@ own
  IN [result EXCEPT !.typeName = "PenTool"]

Poly_getState ==
  /\ variant = "polyline"
  /\ Collect(arr, obj, points, Poly_result)
  /\ savedByGetState' = TRUE
  /\ Observe([name |-> "getState"], <<"super.getState">>, FALSE)
  /\ Off
  /\ UNCHANGED <<variant, strokeColor, strokeWidth, strokeDasharray, isDrawing,
                 visual, visibleCurve, drawingPath, dom, container, notes>>

\* the style fields restoreState copies out of the record, and the variant a bug
\* would make of it: the width is left as it was
Poly_restoreStyleNoWidth(penState) ==
  /\ strokeColor' = penState.strokeColor
  /\ strokeWidth' = strokeWidth
  /\ strokeDasharray' = penState.strokeDasharray

Poly_restoreStyle(penState) ==
  /\ strokeColor' = penState.strokeColor
  /\ strokeWidth' = penState.strokeWidth
  /\ strokeDasharray' = penState.strokeDasharray

\* rs: the record passed, with the heaps that hold its stroke
Poly_restoreState(rs) ==
  /\ variant = "polyline"
  /\ Super_restoreState(rs.state)
  /\ Poly_restoreStyle(rs.state)
  /\ Collect(rs.arr, rs.obj, rs.state.points, rs.state)
  /\ LET ps == Vals(rs.arr, rs.obj, rs.state.points)
     IN SetV(Poly_adjustVisual(
               Poly_createVisual(CurV, ps, rs.state.strokeColor, rs.state.strokeWidth),
               ps, rs.state.strokeColor, rs.state.strokeWidth))
  /\ savedByGetState' = rs.fromGetState
  /\ Observe([name |-> "restoreState"],
             <<"super.restoreState", "createVisual", "adjustVisual">>, FALSE)
  /\ Off
  /\ UNCHANGED <<variant, isDrawing>>

\* the records the host may pass to restoreState: the one it holds, or one it builds
Poly_RestoreInputs ==
  (IF saved = NoState THEN {}
   ELSE {[state |-> saved, arr |-> arr, obj |-> obj, fromGetState |-> savedByGetState]})
  \cup
  {LET rs == FreshRefs(DOMAIN obj, Len(vs))
       a == FreshRef(DOMAIN arr)
   IN [state |-> [typeName |-> "PenTool", strokeColor |-> HostStyle.strokeColor,
                  strokeWidth |-> HostStyle.strokeWidth,
                  strokeDasharray |-> HostStyle.strokeDasharray,
                  points |-> a, notes |-> HostStyle.notes],
       arr |-> (a :> rs) @@ arr,
       obj |-> [r \in DOMAIN obj \cup {rs[i] : i \in 1..Len(rs)} |->
                  IF r \in DOMAIN obj THEN obj[r]
                  ELSE vs[CHOOSE j \in 1..Len(rs) : rs[j] = r]],
       fromGetState |-> FALSE] : vs \in HostStrokes}

\* --------------------------------------- part_000 (smoothed, handles)
\* the loop of getPathD from (1-based) point i on, and the variant a bug would
\* make of it: the segment ends halfway from the previous point
RECURSIVE Smooth_curvesFromPrevious(_, _)
Smooth_curvesFromPrevious(ps, i) ==
  IF i >= Len(ps) THEN ""
  ELSE " Q " \o NumToString(ps[i].x) \o " " \o NumToString(ps[i].y)
       \o " " \o HalfToString(ps[i - 1].x + ps[i].x)
       \o " " \o HalfToString(ps[i - 1].y + ps[i].y)
       \o Smooth_curvesFromPrevious(ps, i + 1)

RECURSIVE Smooth_curves(_, _)
Smooth_curves(ps, i) ==
  IF i >= Len(ps) THEN ""
  ELSE " Q " \o NumToString(ps[i].x) \o " " \o NumToString(ps[i].y)
       \o " " \o HalfToString(ps[i].x + ps[i + 1].x)
       \o " " \o HalfToString(ps[i].y + ps[i + 1].y)
       \o Smooth_curves(ps, i + 1)

Smooth_getPathD(ps) ==
  IF Len(ps) < 2 THEN ""
  ELSE "M " \o NumToString(ps[1].x) \o " " \o NumToString(ps[1].y)
       \o Smooth_curves(ps, 2)
       \o " L " \o NumToString(ps[Len(ps)].x) \o " " \o NumToString(ps[Len(ps)].y)

\* the circle of createVisual's loop at (0-based) index i, its listener bound to i
Circle(p, i) ==
  [tag |-> "circle",
   attrs |-> ("cx" :> NumToString(p.x)) @@ ("cy" :> NumToString(p.y))
             @@ ("r" :> "5") @@ ("fill" :> "white") @@ ("stroke" :> "gray")
             @@ ("cursor" :> "pointer"),
   children |-> <<>>, idx |-> i]

Smooth_createVisual(V, ps, color, width) ==
  LET g == Len(V.dom) + 1
      c1 == g + 1
      c2 == g + 2
      circles == [i \in 1..Len(ps) |-> Circle(ps[i], i - 1)]
  IN [dom |-> V.dom \o <<Group(<<c1, c2>> \o [i \in 1..Len(ps) |-> g + 2 + i]),
                         Path("", color, NumToString(width)),
                         Path("", color, NumToString(width))>> \o circles,
      container |-> Append(V.container, g),
      visual |-> g,
      visibleCurve |-> c1,
      drawingPath |-> c2]

\* the loop of adjustVisual from (1-based) point i on: childNodes[i + 2] of the
\* 0-based loop is the child at position i + 2 here
RECURSIVE Smooth_moveCircles(_, _, _, _)
Smooth_moveCircles(D, g, ps, i) ==
  IF i > Len(ps) THEN D
  ELSE IF i + 2 <= Len(D[g].children)
       THEN LET circle == D[g].children[i + 2]
            IN Smooth_moveCircles(
                 SetAttr(SetAttr(D, circle, "cx", NumToString(ps[i].x)),
                         circle, "cy", NumToString(ps[i].y)),
                 g, ps, i + 1)
       ELSE Smooth_moveCircles(D, g, ps, i + 1)

Smooth_adjustVisual(V, ps) ==
  IF V.visibleCurve # Undefined /\ V.drawingPath # Undefined
  THEN [V EXCEPT !.dom =
          Smooth_moveCircles(
            SetAttr(SetAttr(V.dom, V.visibleCurve, "d", Smooth_getPathD(ps)),
                    V.drawingPath, "d", Smooth_getPathD(ps)),
            V.visual, ps, 1)]
  ELSE V

Smooth_ownsTarget(el) ==
  \/ Super_ownsTarget(el)
  \/ el = visual
  \/ el = visibleCurve
  \/ el = drawingPath

Smooth_pointerDown(in) ==
  /\ variant = "smoothed"
  /\ IF ~isDrawing
     THEN LET A == Push(arr, in.heap, points, in.ref)
          IN /\ Collect(A, in.heap, points, saved)
             /\ SetV(Smooth_createVisual(CurV, Vals(A, in.heap, points),
                                         strokeColor, strokeWidth))
             /\ isDrawing' = TRUE
             /\ Observe([name |-> "pointerDown", point |-> in.heap[in.ref]],
                        <<"super.pointerDown", "createVisual">>, FALSE)
     ELSE /\ Collect(arr, in.heap, points, saved)
          /\ UNCHANGED <<dom, container, visual, visibleCurve, drawingPath, isDrawing>>
          /\ Observe([name |-> "pointerDown", point |-> in.heap[in.ref]],
                     <<"super.pointerDown">>, FALSE)
  /\ DownSeen(in.heap[in.ref])
  /\ UNCHANGED <<variant, strokeColor, strokeWidth, strokeDasharray, notes,
                 savedByGetState>>

Smooth_pointerMove(in) ==
  /\ variant = "smoothed"
  /\ IF isDrawing
     THEN LET A == Push(arr, in.heap, points, in.ref)
          IN /\ Collect(A, in.heap, points, saved)
             /\ SetV(Smooth_adjustVisual(CurV, Vals(A, in.heap, points)))
             /\ Observe([name |-> "pointerMove"],
                        <<"adjustVisual">>, FALSE)
     ELSE /\ Collect(arr, in.heap, points, saved)
          /\ UNCHANGED <<dom, container, visual, visibleCurve, drawingPath>>
          /\ Observe([name |-> "pointerMove"],
                     <<>>, FALSE)
  /\ MoveSeen(in.heap[in.ref])
  /\ UNCHANGED <<variant, strokeColor, strokeWidth, strokeDasharray, isDrawing,
                 notes, savedByGetState>>

Smooth_pointerUp(in) ==
  /\ variant = "smoothed"
  /\ IF isDrawing
     THEN LET A == Push(arr, in.heap, points, in.ref)
          IN /\ Collect(A, in.heap, points, saved)
             /\ SetV(Smooth_adjustVisual(CurV, Vals(A, in.heap, points)))
             /\ isDrawing' = FALSE
             /\ Observe([name |-> "pointerUp"],
                        <<"adjustVisual">>, FALSE)
     ELSE /\ Collect(arr, in.heap, points, saved)
          /\ UNCHANGED <<dom, container, visual, visibleCurve, drawingPath, isDrawing>>
          /\ Observe([name |-> "pointerUp"],
                     <<>>, FALSE)
  /\ UpSeen(in.heap[in.ref])
  /\ UNCHANGED <<variant, strokeColor, strokeWidth, strokeDasharray, notes,
                 savedByGetState>>

\* adjustPoint(index), called by the mousedown listener of a circle; op is the
\* host's event.  The console.log template reads this.points[index].x before the
\* bounds check: with points[index] undefined that read throws a TypeError.
Smooth_adjustPoint(index, op) ==
  IF ~(index >= 0 /\ index < Len(arr[points]))
  THEN /\ Observe(op, <<"adjustPoint">>, TRUE)
       /\ UNCHANGED <<points, arr, obj, saved, dom, container, visual,
                      visibleCurve, drawingPath>>
  ELSE LET old == obj[arr[points][index + 1]]
           new == [x |-> old.x + 10, y |-> old.y + 10]
           r == FreshRef(DOMAIN obj)
           O == (r :> new) @@ obj
           A == [arr EXCEPT ![points][index + 1] = r]
       IN /\ Collect(A, O, points, saved)
          /\ SetV(Smooth_adjustVisual(CurV, Vals(A, O, points)))
          /\ Observe(op, <<"adjustPoint", "adjustVisual">>, FALSE)

\* the mousedown listener createVisual attached to circle c; q is where the pointer is
Smooth_circleMousedown(c, q) ==
  /\ variant = "smoothed"
  /\ dom[c].tag = "circle"
  /\ Smooth_adjustPoint(dom[c].idx,
                        [name |-> "adjustPoint", index |-> dom[c].idx, q |-> q])
  /\ Off
  /\ UNCHANGED <<variant, strokeColor, strokeWidth, strokeDasharray, isDrawing, notes,
                 savedByGetState>>

Smooth_setStrokeColor(color) ==
  /\ variant = "smoothed"
  /\ strokeColor' = color
  /\ SetV(Smooth_adjustVisual(CurV, PointVals))
  /\ Observe([name |-> "setStrokeColor", color |-> color], <<"adjustVisual">>, FALSE)
  /\ Off
  /\ UNCHANGED <<variant, strokeWidth, strokeDasharray, points, isDrawing, arr, obj,
                 notes, saved, savedByGetState>>

Smooth_setStrokeWidth(width) ==
  /\ variant = "smoothed"
  /\ strokeWidth' = width
  /\ SetV(Smooth_adjustVisual(CurV, PointVals))
  /\ Observe([name |-> "setStrokeWidth", width |-> width], <<"adjustVisual">>, FALSE)
  /\ Off
  /\ UNCHANGED <<variant, strokeColor, strokeDasharray, points, isDrawing, arr, obj,
                 notes, saved, savedByGetState>>

\* the loop of scale from (1-based) index i on: each visit multiplies the object in place
RECURSIVE Smooth_scaleLoop(_, _, _, _, _)
Smooth_scaleLoop(O, refs, i, scaleX, scaleY) ==
  IF i > Len(refs) THEN O
  ELSE Smooth_scaleLoop(
         [O EXCEPT ![refs[i]] = [x |-> @.x * scaleX, y |-> @.y * scaleY]],
         refs, i + 1, scaleX, scaleY)

Smooth_scale(scaleX, scaleY) ==
  /\ variant = "smoothed"
  /\ LET O == Smooth_scaleLoop(obj, arr[points], 1, scaleX, scaleY)
     IN /\ Collect(arr, O, points, saved)
        /\ SetV(Smooth_adjustVisual(CurV, Vals(arr, O, points)))
  /\ Observe([name |-> "scale", scaleX |-> scaleX, scaleY |-> scaleY],
             <<"adjustVisual">>, FALSE)
  /\ Off
  /\ UNCHANGED <<variant, strokeColor, strokeWidth, strokeDasharray, isDrawing, notes,
                 savedByGetState>>

\* the record getState builds: {own fields, ...super.getState()}, then typeName
Smooth_result ==
  LET own == [strokeColor |-> strokeColor, strokeWidth |-> strokeWidth,
              points |-> points]
      result == Super_getState @@ own
  IN [result EXCEPT !.typeName = "PenTool"]

Smooth_getState ==
  /\ variant = "smoothed"
  /\ Collect(arr, obj, points, Smooth_result)
  /\ savedByGetState' = TRUE
  /\ Observe([name |-> "getState"], <<"super.getState">>, FALSE)
  /\ Off
  /\ UNCHANGED <<variant, strokeColor, strokeWidth, strokeDasharray, isDrawing,
                 visual, visibleCurve, drawingPath, dom, container, notes>>

Smooth_restoreState(rs) ==
  /\ variant = "smoothed"
  /\ Super_restoreState(rs.state)
  /\ strokeColor' = rs.state.strokeColor
  /\ strokeWidth' = rs.state.strokeWidth
  /\ Collect(rs.arr, rs.obj, rs.state.points, rs.state)
  /\ LET ps == Vals(rs.arr, rs.obj, rs.state.points)
     IN SetV(Smooth_adjustVisual(
               Smooth_createVisual(CurV, ps, rs.state.strokeColor,
                                   rs.state.strokeWidth), ps))
  /\ savedByGetState' = rs.fromGetState
  /\ Observe([name |-> "restoreState"],
             <<"super.restoreState", "createVisual", "adjustVisual">>, FALSE)
  /\ Off
  /\ UNCHANGED <<variant, strokeDasharray, isDrawing>>

Smooth_RestoreInputs ==
  (IF saved = NoState THEN {}
   ELSE {[state |-> saved, arr |-> arr, obj |-> obj, fromGetState |-> savedByGetState]})
  \cup
  {LET rs == FreshRefs(DOMAIN obj, Len(vs))
       a == FreshRef(DOMAIN arr)
   IN [state |-> [typeName |-> "PenTool", strokeColor |-> HostStyle.strokeColor,
                  strokeWidth |-> HostStyle.strokeWidth,
                  points |-> a, notes |-> HostStyle.notes],
       arr |-> (a :> rs) @@ arr,
       obj |-> [r \in DOMAIN obj \cup {rs[i] : i \in 1..Len(rs)} |->
                  IF r \in DOMAIN obj THEN obj[r]
                  ELSE vs[CHOOSE j \in 1..Len(rs) : rs[j] = r]],
       fromGetState |-> FALSE] : vs \in HostStrokes}

\* ------------------------------------------------------ specification
\* the constructors: default style from the settings, an empty stroke, no visual
Init ==
  /\ variant \in {"polyline", "smoothed"}
  /\ strokeColor = DefaultColor
  /\ strokeWidth = DefaultStrokeWidth
  /\ strokeDasharray = ""
  /\ points = 1
  /\ arr = (1 :> <<>>)
  /\ obj = <<>>
  /\ isDrawing = FALSE
  /\ visual = Undefined
  /\ visibleCurve = Undefined
  /\ drawingPath = Undefined
  /\ dom = <<>>
  /\ container = <<>>
  /\ notes = ""
  /\ saved = NoState
  /\ savedByGetState = FALSE
  /\ lastOp = NoOp
  /\ trace = <<>>
  /\ threw = FALSE
  /\ nCalls = 0
  /\ delivered = <<>>
  /\ phase = "new"

Next ==
  \/ \E in \in PointerInputs : Poly_pointerDown(in)
  \/ \E in \in PointerInputs : Poly_pointerMove(in)
  \/ \E in \in PointerInputs : Poly_pointerUp(in)
  \/ \E color \in Colors : Poly_setStrokeColor(color)
  \/ \E width \in Widths : Poly_setStrokeWidth(width)
  \/ \E dasharray \in Dasharrays : Poly_setStrokeDasharray(dasharray)
  \/ \E s \in ScaleFactors : Poly_scale(s[1], s[2])
  \/ Poly_getState
  \/ \E rs \in Poly_RestoreInputs : Poly_restoreState(rs)
  \/ \E in \in PointerInputs : Smooth_pointerDown(in)
  \/ \E in \in PointerInputs : Smooth_pointerMove(in)
  \/ \E in \in PointerInputs : Smooth_pointerUp(in)
  \/ \E c \in 1..Len(dom), q \in EditTargets : Smooth_circleMousedown(c, q)
  \/ \E color \in Colors : Smooth_setStrokeColor(color)
  \/ \E width \in Widths : Smooth_setStrokeWidth(width)
  \/ \E s \in ScaleFactors : Smooth_scale(s[1], s[2])
  \/ Smooth_getState
  \/ \E rs \in Smooth_RestoreInputs : Smooth_restoreState(rs)

Spec == Init /\ [][Next]_vars

\* ------------------------------------------------------------ claims
Setters == {"setStrokeColor", "setStrokeWidth", "setStrokeDasharray"}

\* the data string of path element e in the element heap D
PathD(D, e) == D[e].attrs["d"]

\* the paths the marker holds a reference to
Paths == {visibleCurve, drawingPath} \ {Undefined}

\* a state record with its stroke read out of the heap
DeepState(s) == [s EXCEPT !.points = Vals(arr, obj, s.points)]

\* what getState() would return now
GetStateNow == IF variant = "polyline" THEN Poly_result ELSE Smooth_result

InRange(index, ps) == index >= 0 /\ index < Len(ps)

Count(seq, v) == Cardinality({i \in 1..Len(seq) : seq[i] = v})

\* C1: on a new marker, after pointerDown(p0), k moves and pointerUp(u), with
\* nothing else in between, the stroke is exactly the delivered points in
\* delivery order, nothing dropped or merged, and the tool is Idle.
C1_SessionStroke ==
  /\ phase = "drawing" => (PointVals = delivered /\ isDrawing)
  /\ phase = "done" => (PointVals = delivered /\ ~isDrawing)

\* a session of down, two moves to the same position, up
C1_Witness ==
  /\ phase = "done"
  /\ Len(delivered) = 4
  /\ delivered[1] # delivered[2]
  /\ delivered[2] = delivered[3]

\* C2: a pointerDown(p) delivered while the tool is Idle leaves the stroke
\* exactly [p].
C2_FreshStroke ==
  (lastOp.name = "pointerDown" /\ "createVisual" \in {trace[i] : i \in 1..Len(trace)})
    => PointVals = <<lastOp.point>>

\* C3: after restoreState(s), for s a record getState returned, getState()
\* returns a record equal to s field for field, the stroke compared point by
\* point.
C3_RoundTrip ==
  (lastOp.name = "restoreState" /\ savedByGetState)
    => DeepState(GetStateNow) = DeepState(saved)

\* a record with a changed width and a non-empty stroke has been restored
C3_Witness ==
  /\ lastOp.name = "restoreState"
  /\ savedByGetState
  /\ saved.strokeWidth # DefaultStrokeWidth
  /\ Len(PointVals) >= 1

\* C4: while the tool is Idle and stays Idle, pointerMove, pointerUp, a handle
\* edit, a style setter and scale keep the number of points; all but the edit
\* and scale keep every point, and the edit keeps every point but the edited one.
C4_FrozenAgainstAppend ==
  [][(/\ ~isDrawing
      /\ ~isDrawing'
      /\ lastOp'.name \in {"pointerMove", "pointerUp", "adjustPoint", "scale"}
                            \cup Setters)
     => /\ Len(PointVals') = Len(PointVals)
        /\ lastOp'.name \notin {"adjustPoint", "scale"} => PointVals' = PointVals
        /\ lastOp'.name = "adjustPoint" =>
             \A j \in 1..Len(PointVals) :
               j # lastOp'.index + 1 => PointVals'[j] = PointVals[j]]_vars

\* a handle of a finished stroke of two points or more has been edited
C4_Witness ==
  /\ lastOp.name = "adjustPoint"
  /\ ~threw
  /\ ~isDrawing
  /\ Len(PointVals) >= 2

\* C5: a handle edit with an index out of range does not throw and triggers
\* no refresh.
C5_OutOfRangeSilent ==
  (lastOp.name = "adjustPoint" /\ ~InRange(lastOp.index, PointVals))
    => (~threw /\ Count(trace, "adjustVisual") = 0)

\* C6: a handle edit of handle i committed at position q sets points[i] to q,
\* keeps every other point, refreshes once and keeps the drawing state.
C6_EditCommitsPosition ==
  [][(lastOp'.name = "adjustPoint" /\ InRange(lastOp'.index, PointVals))
     => /\ PointVals' = [PointVals EXCEPT ![lastOp'.index + 1] = lastOp'.q]
        /\ Count(trace', "adjustVisual") = 1
        /\ isDrawing' = isDrawing]_vars

\* C7: a style setter keeps the points, the drawing state and the data string
\* of every rendered path.
C7_StyleLeavesGeometry ==
  [][lastOp'.name \in Setters
     => /\ PointVals' = PointVals
        /\ isDrawing' = isDrawing
        /\ \A e \in Paths : PathD(dom', e) = PathD(dom, e)]_vars

\* C8: when a path is rendered, after an operation that refreshes, the path's
\* stroke, stroke-width and stroke-dasharray attributes are the marker's
\* strokeColor, strokeWidth and strokeDasharray.
C8_StyleRendered ==
  (visibleCurve # Undefined /\ Count(trace, "adjustVisual") > 0)
    => /\ GetAttr(visibleCurve, "stroke") = strokeColor
       /\ GetAttr(visibleCurve, "stroke-width") = NumToString(strokeWidth)
       /\ GetAttr(visibleCurve, "stroke-dasharray") = strokeDasharray

\* C9: scale(sx, sy) replaces the point at every index by (x*sx, y*sy), keeps
\* the style and the drawing state, and refreshes.
C9_ScaleEachOnce ==
  [][lastOp'.name = "scale"
     => /\ PointVals' = [i \in 1..Len(PointVals) |->
                           [x |-> PointVals[i].x * lastOp'.scaleX,
                            y |-> PointVals[i].y * lastOp'.scaleY]]
        /\ <<strokeColor', strokeWidth', strokeDasharray'>>
             = <<strokeColor, strokeWidth, strokeDasharray>>
        /\ isDrawing' = isDrawing
        /\ Count(trace', "adjustVisual") = 1]_vars

\* the elements of the marker's current visual: the group and its children
OwnElements ==
  IF visual = Undefined THEN {}
  ELSE {visual} \cup {dom[visual].children[i] : i \in 1..Len(dom[visual].children)}

OwnsTarget(el) ==
  IF variant = "polyline" THEN Poly_ownsTarget(el) ELSE Smooth_ownsTarget(el)

\* C10: ownsTarget is true of the marker's group, of its paths and of each of
\* its handle circles.
C10_OwnsOwnElements == \A el \in OwnElements : OwnsTarget(el)

\* ------------------------------------------------- path descriptions
\* A path description is a sequence of commands [op, args]; a coordinate is
\* carried as twice its value, so that a midpoint is the sum of two coordinates.
MoveTo(p) == [op |-> "M", args |-> <<2 * p.x, 2 * p.y>>]

LineTo(p) == [op |-> "L", args |-> <<2 * p.x, 2 * p.y>>]

QuadTo(c, a, b) ==
  [op |-> "Q", args |-> <<2 * c.x, 2 * c.y, a.x + b.x, a.y + b.y>>]

RECURSIVE FormatArgs(_)
FormatArgs(args) ==
  IF args = <<>> THEN ""
  ELSE " " \o HalfToString(Head(args)) \o FormatArgs(Tail(args))

RECURSIVE FormatPath(_)
FormatPath(cmds) ==
  IF cmds = <<>> THEN ""
  ELSE Head(cmds).op \o FormatArgs(Head(cmds).args)
       \o (IF Len(cmds) > 1 THEN " " ELSE "") \o FormatPath(Tail(cmds))

\* move-to points[0], one quadratic segment per interior point, line-to the last
SmoothedPath(ps) ==
  <<MoveTo(ps[1])>>
  \o [k \in 1..(Len(ps) - 2) |-> QuadTo(ps[k + 1], ps[k + 1], ps[k + 2])]
  \o <<LineTo(ps[Len(ps)])>>

\* move-to points[0], then one line-to per later point
PolylinePath(ps) ==
  [i \in 1..Len(ps) |-> IF i = 1 THEN MoveTo(ps[i]) ELSE LineTo(ps[i])]

\* the last operation refreshed a rendered path without an exception
Refreshed ==
  /\ visibleCurve # Undefined
  /\ Count(trace, "adjustVisual") > 0
  /\ ~threw

\* the path the marker's own getPathD() returns for stroke ps
GetPathD(ps) ==
  IF variant = "polyline" THEN Poly_getPathD(ps) ELSE Smooth_getPathD(ps)

\* C11: in smoothed mode a refresh of a stroke of two points or more writes
\* the path: move-to points[0]; for each interior i in increasing order a
\* quadratic segment with control point points[i] ending at the midpoint of
\* points[i] and points[i+1]; one final line-to points[n-1].
C11_SmoothedPath ==
  (variant = "smoothed" /\ Refreshed /\ Len(PointVals) >= 2)
    => \A e \in Paths : PathD(dom, e) = FormatPath(SmoothedPath(PointVals))

\* a smoothed stroke of four points, the two interior ones apart, was refreshed
C11_Witness ==
  /\ variant = "smoothed"
  /\ Refreshed
  /\ Len(PointVals) = 4
  /\ PointVals[2] # PointVals[3]

\* C12: in polyline mode a refresh of a stroke of n >= 2 points writes the
\* path of one move-to points[0] and n-1 line-to commands, one per later
\* point in input order.
C12_PolylinePath ==
  (variant = "polyline" /\ Refreshed /\ Len(PointVals) >= 2)
    => /\ PathD(dom, visibleCurve) = FormatPath(PolylinePath(PointVals))
       /\ Count([i \in 1..Len(PointVals) |-> PolylinePath(PointVals)[i].op], "M") = 1
       /\ Count([i \in 1..Len(PointVals) |-> PolylinePath(PointVals)[i].op], "L")
            = Len(PointVals) - 1

\* a polyline stroke of three points or more, two of them apart, was refreshed
C12_Witness ==
  /\ variant = "polyline"
  /\ Refreshed
  /\ Len(PointVals) >= 3
  /\ PointVals[1] # PointVals[2]

\* C13: in both modes a refresh of a stroke of fewer than two points writes
\* the empty path to every rendered path and raises no exception.
C13_DegenerateEmpty ==
  (visibleCurve # Undefined /\ Count(trace, "adjustVisual") > 0
     /\ Len(PointVals) < 2)
    => /\ ~threw
       /\ GetPathD(PointVals) = ""
       /\ \A e \in Paths : PathD(dom, e) = ""

\* a stroke of exactly one point was refreshed
C13_Witness ==
  /\ Refreshed
  /\ Len(PointVals) = 1

\* C14: whenever the marker has rendered paths, the data string of each of
\* them is the path generated from the current stroke.
C14_PathInSync == \A e \in Paths : PathD(dom, e) = GetPathD(PointVals)

\* the handle circles of the current visual, in child order
Handles ==
  IF visual = Undefined THEN <<>>
  ELSE SelectSeq(dom[visual].children, LAMBDA c : dom[c].tag = "circle")

\* C15: in the handle variant, whenever the visual exists, there is one
\* handle per point and handle i sits at points[i].
C15_HandlePerPoint ==
  (variant = "smoothed" /\ visual # Undefined)
    => /\ Len(Handles) = Len(PointVals)
       /\ \A i \in 1..Len(Handles) :
            /\ GetAttr(Handles[i], "cx") = NumToString(PointVals[i].x)
            /\ GetAttr(Handles[i], "cy") = NumToString(PointVals[i].y)

\* the path elements among the children of group g
PathsOf(g) == {i \in 1..Len(dom[g].children) : dom[dom[g].children[i]].tag = "path"}

\* C16: the container holds at most one group of this marker, and that group
\* holds one visible path and at most one second path.
C16_OneVisual ==
  /\ Len(container) <= 1
  /\ \A k \in 1..Len(container) : Cardinality(PathsOf(container[k])) \in {1, 2}

PointerOps == {"pointerDown", "pointerMove", "pointerUp"}

\* C17: every pointerDown, pointerMove and pointerUp calls the inherited
\* handler of the same name first, and every scale calls the base scale once.
C17_Delegation ==
  /\ lastOp.name \in PointerOps
       => (trace # <<>> /\ trace[1] = "super." \o lastOp.name)
  /\ lastOp.name = "scale" => Count(trace, "super.scale") = 1

\* C18: no operation on the marker changes the stroke of a state record the
\* host holds (returned by getState or passed to restoreState); only getState
\* and restoreState hand the host another record.
C18_SnapshotIsolation ==
  [][(saved # NoState /\ lastOp'.name \notin {"getState", "restoreState"})
     => Vals(arr', obj', saved'.points) = Vals(arr, obj, saved.points)]_vars

\* C19: after restoreState the tool is Idle, and a pointerMove or pointerUp
\* that follows restoreState leaves the restored stroke as it was.
C19_RestoreEndsDrawing ==
  [][/\ lastOp'.name = "restoreState" => ~isDrawing'
     /\ (lastOp.name = "restoreState" /\ lastOp'.name \in {"pointerMove", "pointerUp"})
          => PointVals' = PointVals]_vars

====
